---- MODULE Spec2Model ----
(***************************************************************************)
(* Two programs of the repository as state machines.  The degree          *)
(* aggregator of scripts/restructure_data_chunk.py (split_large_csv, main,  *)
(* process_chunks, cleanup_temp_files) with the whole-file aggregation of   *)
(* scripts/restructure_data.py as an operator, under AggSpec; and the       *)
(* checkpointed enricher of scripts/enrich_data_2.py, under Spec: the files it reads and writes (input table, checkpoint         *)
(* directory, output table), the in-memory table of one process run and    *)
(* the position of that run in enrich_taxon_data.  External services are   *)
(* the environment: each request receives one of a set of responses.       *)
(* Text is a sequence of character codes; a table cell is {} when it is    *)
(* missing (None / NaN) and {v} when it holds v.                           *)
(***************************************************************************)
EXTENDS Integers, Sequences, FiniteSets, TLC

VARIABLES
    input_file,         \* rows of the degree table given as input_file (CSV text cells)
    batch_size,         \* the batch_size argument
    reliable,           \* TRUE when every service answers every request with a result
    checkpoint_dir,     \* file name -> CSV content of the checkpoints directory
    output_file,        \* {} while the output does not exist, else {CSV content}
    pc,                 \* position of the process in enrich_taxon_data
    taxon_data,         \* the in-memory table of the running process
    idx,                \* loop variable of the running process
    start_idx,          \* start_idx of the running process
    latest_checkpoint,  \* {} (None) or {file name} chosen at startup
    response,           \* {} or {the response of the request in flight}
    runs,               \* number of process starts so far
    loaded,             \* history: the table the current run loaded at startup
    queries,            \* history: the requests of the current run, in order
    slept,              \* history: the sleeps (ms) since the last request
    stopped,            \* history: {} or {rows done and memory of the run just killed}
    resumed,            \* history: {} or {what the run restarted after a kill lost}
    interactions,       \* rows of interactions.csv (text cells), the aggregator's input
    chunk_size,         \* the chunk_size argument of split_large_csv, 0 before the call
    temp_dir,           \* file name -> CSV content of the temp directory
    chunk_paths,        \* the list chunk_paths
    chunk_i,            \* the loop variable i of split_large_csv and of process_chunks
    all_species,        \* the column taxon_name of the frame all_species
    degree_file,        \* {} while final_01_degree.csv does not exist, else {CSV content}
    apc                 \* position of the aggregator

enrich_vars == <<input_file, batch_size, reliable, checkpoint_dir, output_file, pc,
                 taxon_data, idx, start_idx, latest_checkpoint, response, runs, loaded,
                 queries, slept, stopped, resumed>>

agg_vars == <<interactions, chunk_size, temp_dir, chunk_paths, chunk_i, all_species,
              degree_file, apc>>

vars == <<enrich_vars, agg_vars>>

(***************************************************************************)
(* Bounds of the exploration.                                              *)
(***************************************************************************)
MaxRows == 2
MaxBatch == 2
MaxRuns == 2
WideRows == 10
MaxRecords == 3
MaxChunk == 2

(***************************************************************************)
(* Text: str(), int(), sorted() on file names.                             *)
(***************************************************************************)
NaN == {}

isna(cell) == cell = NaN

RECURSIVE str(_)
str(n) == IF n < 10 THEN <<48 + n>> ELSE str(n \div 10) \o <<48 + (n % 10)>>

isdigit(s) == Len(s) > 0 /\ \A k \in 1..Len(s) : s[k] >= 48 /\ s[k] <= 57

RECURSIVE int(_)
int(s) == IF Len(s) = 0 THEN 0
          ELSE 10 * int(SubSeq(s, 1, Len(s) - 1)) + (s[Len(s)] - 48)

startswith(s, p) == Len(s) >= Len(p) /\ SubSeq(s, 1, Len(p)) = p

endswith(s, p) == Len(s) >= Len(p) /\ SubSeq(s, Len(s) - Len(p) + 1, Len(s)) = p

\* "checkpoint_" and ".csv"
CheckpointPrefix == <<99, 104, 101, 99, 107, 112, 111, 105, 110, 116, 95>>
CsvSuffix == <<46, 99, 115, 118>>

\* f"checkpoint_{idx+1}.csv"
checkpoint_file(i) == CheckpointPrefix \o str(i + 1) \o CsvSuffix

\* Python's order on str: code point by code point, a proper prefix first.
StrLess(a, b) ==
    \E k \in 0..Len(a) :
        /\ k <= Len(b)
        /\ \A j \in 1..k : a[j] = b[j]
        /\ \/ k = Len(a) /\ k < Len(b)
           \/ k < Len(a) /\ k < Len(b) /\ a[k + 1] < b[k + 1]

\* the row index a checkpoint's name carries
CheckpointIndex(f) == int(SubSeq(f, Len(CheckpointPrefix) + 1, Len(f) - Len(CsvSuffix)))

\* sorted(names)[-1]
SortedLast(names) == CHOOSE f \in names : \A g \in names : g = f \/ StrLess(g, f)

\* [f for f in os.listdir(checkpoint_dir) if f.startswith(..) and f.endswith(..)]
checkpoint_files(dir) ==
    {f \in DOMAIN dir : startswith(f, CheckpointPrefix) /\ endswith(f, CsvSuffix)}

(***************************************************************************)
(* Tables and their CSV form.  A number is written in decimal and read     *)
(* back as a number, a missing cell is written as the empty text; whether  *)
(* pandas writes 7 or 7.0 for a column that also holds missing cells is    *)
(* not modelled.                                                           *)
(***************************************************************************)
FormatCell(cell) == IF isna(cell) THEN <<>> ELSE str(CHOOSE v \in cell : TRUE)

ParseCell(text) == IF text = <<>> THEN NaN ELSE {int(text)}

to_csv(df) ==
    [i \in DOMAIN df |->
        [c \in DOMAIN df[i] |->
            IF c = "taxon_name" THEN df[i][c] ELSE FormatCell(df[i][c])]]

read_csv(file) ==
    [i \in DOMAIN file |->
        [c \in DOMAIN file[i] |->
            IF c = "taxon_name" THEN file[i][c] ELSE ParseCell(file[i][c])]]

\* if 'attention_ss' not in taxon_data.columns: taxon_data['attention_ss'] = None ...
InitColumns(df) ==
    [i \in DOMAIN df |->
        df[i] @@ [attention_ss |-> NaN, attention_pm |-> NaN, year_ofd |-> NaN]]

total_rows == Len(taxon_data)

\* taxon_data.at[i, col] with the 0-based i of the code
At(df, i, col) == df[i + 1][col]

SetAtFirstRow(df, i, col, cell) == [df EXCEPT ![1][col] = cell]

SetAt(df, i, col, cell) == [df EXCEPT ![i + 1][col] = cell]

\* pd.isna(taxon_data.at[idx, col]), the test in front of each request
FieldMissingUnchecked(df, i, col) == TRUE

FieldMissing(df, i, col) == isna(At(df, i, col))

\* the condition of "Skip already processed rows"
AlreadyProcessedNoYear(df, i) ==
    /\ ~isna(At(df, i, "attention_ss"))
    /\ ~isna(At(df, i, "attention_pm"))

AlreadyProcessed(df, i) ==
    /\ ~isna(At(df, i, "attention_ss"))
    /\ ~isna(At(df, i, "attention_pm"))
    /\ ~isna(At(df, i, "year_ofd"))

\* the condition of "Create checkpoint after processing batch_size records"
CheckpointDueNoLastRow(i, rows, batch) == (i + 1) % batch = 0

CheckpointDue(i, rows, batch) == (i + 1) % batch = 0 \/ i = rows - 1

\* The degree table the aggregator hands over: taxon_name, degree.
DegreeTable(n) ==
    [i \in 1..n |-> [taxon_name |-> <<84>> \o str(i), degree |-> str(n - i + 1)]]

(***************************************************************************)
(* The external services.  A response either is an exception raised by     *)
(* requests.get, or carries a status code and a body that response.json()  *)
(* parses or rejects.  JSON objects are functions from keys, JSON lists    *)
(* sequences, JSON scalars tagged records.                                 *)
(***************************************************************************)
StatusOk == 200
TooManyRequests == 429
RateLimitPause == 60000
FieldPause == 500
RowPause == 1000

EmptyDict == [k \in {} |-> 0]

JNull == [t |-> "null", v |-> 0, s |-> <<>>]
JNum(n) == [t |-> "num", v |-> n, s |-> <<>>]
JStr(s) == [t |-> "str", v |-> 0, s |-> s]

\* d.get(k, default)
DictGet(d, k, default) == IF k \in DOMAIN d THEN d[k] ELSE default

Raised == [raised |-> TRUE, status_code |-> 0, json_ok |-> FALSE, data |-> EmptyDict]
Http(code, ok, d) == [raised |-> FALSE, status_code |-> code, json_ok |-> ok, data |-> d]

\* what a call hands back: an exception that escapes it, or a value after some sleeps
Raise == [raised |-> TRUE, value |-> NaN, sleeps |-> <<>>]
Return(cell, pauses) == [raised |-> FALSE, value |-> cell, sleeps |-> pauses]

\* the cell a JSON scalar becomes when it is stored in the table
JsonCell(j) == IF j.t = "null" THEN NaN ELSE {j.v}

\* the try block of get_semantic_scholar_attention
SemanticScholarTry(r) ==
    IF r.raised THEN Raise
    ELSE IF r.status_code = StatusOk
         THEN IF ~r.json_ok THEN Raise
              ELSE Return(JsonCell(DictGet(r.data, "total", JNum(0))), <<>>)
         ELSE Return({0}, <<>>)

SemanticScholarNoExcept(r) == SemanticScholarTry(r)

get_semantic_scholar_attention(r) ==
    IF SemanticScholarTry(r).raised THEN Return({0}, <<>>) ELSE SemanticScholarTry(r)

\* Python's int() on a JSON scalar
PyInt(j) == IF j.t = "num" THEN Return({j.v}, <<>>)
            ELSE IF j.t = "str" /\ isdigit(j.s) THEN Return({int(j.s)}, <<>>)
            ELSE Raise

\* the try block of get_pubmed_attention
PubMedTry(r) ==
    IF r.raised THEN Raise
    ELSE IF r.status_code = StatusOk
         THEN IF ~r.json_ok THEN Raise
              ELSE PyInt(DictGet(DictGet(r.data, "esearchresult", EmptyDict),
                                 "count", JNum(0)))
         ELSE Return({0}, <<>>)

get_pubmed_attention(r) ==
    IF PubMedTry(r).raised THEN Return({0}, <<>>) ELSE PubMedTry(r)

\* date_value.split('-')[0] if '-' in date_value else date_value
YearText(date_value) ==
    IF \E k \in 1..Len(date_value) : date_value[k] = 45
    THEN SubSeq(date_value, 1,
                (CHOOSE k \in 1..Len(date_value) :
                    date_value[k] = 45 /\ \A j \in 1..(k - 1) : date_value[j] # 45) - 1)
    ELSE date_value

\* the try block of get_wikidata_year
WikidataTry(r) ==
    IF r.raised THEN Raise
    ELSE IF r.status_code = StatusOk
         THEN IF ~r.json_ok THEN Raise
              ELSE LET results == DictGet(DictGet(r.data, "results", EmptyDict),
                                          "bindings", <<>>)
                   IN  IF results # <<>>
                       THEN IF "inception" \in DOMAIN results[1]
                            THEN LET year == YearText(results[1]["inception"].value)
                                 IN  Return(IF isdigit(year) THEN {int(year)} ELSE NaN, <<>>)
                            ELSE Return(NaN, <<>>)
                       ELSE Return(NaN, <<>>)
         ELSE IF r.status_code = TooManyRequests
              THEN Return(NaN, <<RateLimitPause>>)
              ELSE Return(NaN, <<>>)

WikidataNoBackoff(r) ==
    IF WikidataTry(r).raised THEN Return(NaN, <<>>)
    ELSE Return(WikidataTry(r).value, <<>>)

get_wikidata_year(r) ==
    IF WikidataTry(r).raised THEN Return(NaN, <<>>) ELSE WikidataTry(r)

\* Responses the model lets the services give.
ServiceUnavailable == Http(503, FALSE, EmptyDict)
NotJson == Http(StatusOk, FALSE, EmptyDict)

SSAnswers == {Http(StatusOk, TRUE, "total" :> JNum(7))}

SSResponses ==
    SSAnswers \cup
    { Raised, ServiceUnavailable, NotJson,
      Http(StatusOk, TRUE, EmptyDict),
      Http(StatusOk, TRUE, "total" :> JNull) }

PMAnswers == {Http(StatusOk, TRUE, "esearchresult" :> ("count" :> JStr(<<51>>)))}

PMResponses ==
    PMAnswers \cup
    { Raised, ServiceUnavailable, NotJson,
      Http(StatusOk, TRUE, EmptyDict),
      Http(StatusOk, TRUE, "esearchresult" :> EmptyDict),
      Http(StatusOk, TRUE, "esearchresult" :> ("count" :> JNull)),
      Http(StatusOk, TRUE, "esearchresult" :> ("count" :> JStr(<<>>))) }

\* "1758-01-01T00:00:00Z", "1758", "-0500-01-01T00:00:00Z"
DateFull == <<49, 55, 53, 56, 45, 48, 49, 45, 48, 49, 84, 48, 48, 58, 48, 48, 58, 48, 48, 90>>
DateYear == <<49, 55, 53, 56>>
DateBce == <<45, 48, 53, 48, 48, 45, 48, 49, 45, 48, 49, 84, 48, 48, 58, 48, 48, 58, 48, 48, 90>>

Binding(date) == ("item" :> [value |-> <<81>>]) @@ ("inception" :> [value |-> date])
Bindings(list) == "results" :> ("bindings" :> list)

WDAnswers == {Http(StatusOk, TRUE, Bindings(<<Binding(DateFull)>>))}

WDResponses ==
    WDAnswers \cup
    { Raised, ServiceUnavailable, NotJson,
      Http(TooManyRequests, FALSE, EmptyDict),
      Http(StatusOk, TRUE, EmptyDict),
      Http(StatusOk, TRUE, Bindings(<<>>)),
      Http(StatusOk, TRUE, Bindings(<<"item" :> [value |-> <<81>>]>>)),
      Http(StatusOk, TRUE, Bindings(<<Binding(DateYear)>>)),
      Http(StatusOk, TRUE, Bindings(<<Binding(DateBce)>>)) }

Range(seq) == {seq[i] : i \in DOMAIN seq}

(***************************************************************************)
(* The degree aggregator.  A name field of interactions.csv holds a text;  *)
(* read_csv turns the empty text into a missing cell and to_csv writes a   *)
(* missing cell as the empty text.  Names are texts that read_csv keeps as *)
(* text (no numbers, no other marker of a missing value).                  *)
(***************************************************************************)
\* "", "A", "B"
TaxonNames == {<<>>, <<65>>, <<66>>}

Record(s, t) == [sourceTaxonName |-> s, targetTaxonName |-> t]

\* the files interactions.csv of n records
Interactions(n) == [1..n -> {Record(s, t) : s, t \in TaxonNames}]

ParseName(text) == IF text = <<>> THEN NaN ELSE {text}

FormatName(cell) == IF isna(cell) THEN <<>> ELSE CHOOSE text \in cell : TRUE

\* pd.read_csv and to_csv(index=False) on a file of name columns
read_names(file) == [k \in DOMAIN file |-> [c \in DOMAIN file[k] |-> ParseName(file[k][c])]]

names_to_csv(df) == [k \in DOMAIN df |-> [c \in DOMAIN df[k] |-> FormatName(df[k][c])]]

\* "interactions_chunk_" and f"{base_name}_chunk_{i}.csv"
ChunkPrefix == <<105, 110, 116, 101, 114, 97, 99, 116, 105, 111, 110, 115,
                 95, 99, 104, 117, 110, 107, 95>>

chunk_path(i) == ChunkPrefix \o str(i) \o CsvSuffix

Min(a, b) == IF a < b THEN a ELSE b

\* the i-th frame that pd.read_csv(input_file, chunksize=size) yields, from 0
ReadChunk(file, i, size) ==
    read_names(SubSeq(file, i * size + 1, Min(Len(file), (i + 1) * size)))

\* the reader yields a frame while rows are left, and a first frame in any case
\* (a file with a header and no row is read as one empty frame)
MoreChunksNoFirst(file, i, size) == i * size < Len(file)

MoreChunks(file, i, size) == i = 0 \/ i * size < Len(file)

\* one column of a frame
Column(df, c) == [k \in DOMAIN df |-> df[k][c]]

\* pd.concat([DataFrame({'taxon_name': chunk['sourceTaxonName']}),
\*            DataFrame({'taxon_name': chunk['targetTaxonName']})], ignore_index=True)
SpeciesSourceOnly(chunk) == Column(chunk, "sourceTaxonName")

Species(chunk) == Column(chunk, "sourceTaxonName") \o Column(chunk, "targetTaxonName")

\* how often a name is in a column
OccurrencesOnce(col, name) == IF {name} \in Range(col) THEN 1 ELSE 0

Occurrences(col, name) == Cardinality({k \in DOMAIN col : col[k] = {name}})

\* the names of a column; a missing cell is no name (dropna)
PresentWithMissing(col) == {name \in TaxonNames : ParseName(name) \in Range(col)}

Present(col) == {name \in TaxonNames : {name} \in Range(col)}

\* the orders value_counts may give the names: by falling count, equal counts in
\* any order
CountOrders(col, names) ==
    {order \in [1..Cardinality(names) -> names] :
        /\ \A a, b \in DOMAIN order : order[a] = order[b] => a = b
        /\ \A a, b \in DOMAIN order :
              a < b => Occurrences(col, order[a]) >= Occurrences(col, order[b])}

\* frame.value_counts().reset_index() with the columns named taxon_name, degree:
\* the tables it may give
value_counts(col) ==
    {[k \in DOMAIN order |->
        [taxon_name |-> order[k], degree |-> {Occurrences(col, order[k])}]]
     : order \in CountOrders(col, Present(col))}

\* restructure_data.py: the degree files it may write for a whole file, whose
\* name columns are source_taxon_name and target_taxon_name
SnakeCase(file) ==
    [k \in DOMAIN file |-> [source_taxon_name |-> file[k].sourceTaxonName,
                            target_taxon_name |-> file[k].targetTaxonName]]

restructure_data(file) ==
    LET globi == read_names(file)
        species == Column(globi, "source_taxon_name") \o Column(globi, "target_taxon_name")
    IN  {to_csv(restructured) : restructured \in value_counts(species)}

\* the ways to cut n rows into consecutive non-empty chunks: the sets of cut points
Cuts(n) == IF n = 0 THEN {} ELSE SUBSET (1..(n - 1))

\* the rows of the k-th chunk, from 0, of a cut
CutChunk(file, cut, k) ==
    LET rows == {j \in DOMAIN file : Cardinality({c \in cut : c < j}) = k}
        first == CHOOSE j \in rows : \A m \in rows : j <= m
        last == CHOOSE j \in rows : \A m \in rows : m <= j
    IN  SubSeq(file, first, last)

\* the lists that hold each file name of a directory once: os.listdir in any order
Listings(dir) ==
    {list \in [1..Cardinality(DOMAIN dir) -> DOMAIN dir] :
        \A a, b \in DOMAIN list : list[a] = list[b] => a = b}

\* the enricher does not run
EnrichOff ==
    /\ input_file = <<>>
    /\ batch_size = 1
    /\ reliable = TRUE
    /\ checkpoint_dir = EmptyDict
    /\ output_file = {}
    /\ pc = "idle"
    /\ taxon_data = <<>>
    /\ idx = 0
    /\ start_idx = 0
    /\ latest_checkpoint = {}
    /\ response = {}
    /\ runs = 0
    /\ loaded = <<>>
    /\ queries = <<>>
    /\ slept = <<>>
    /\ stopped = {}
    /\ resumed = {}

\* the aggregator does not run
AggOff ==
    /\ interactions = <<>>
    /\ chunk_size = 0
    /\ temp_dir = EmptyDict
    /\ chunk_paths = <<>>
    /\ chunk_i = 0
    /\ all_species = <<>>
    /\ degree_file = {}
    /\ apc = "off"

AggInit ==
    /\ EnrichOff
    /\ \E n \in 0..MaxRecords : interactions \in Interactions(n)
    /\ chunk_size = 0
    /\ temp_dir = EmptyDict
    /\ chunk_paths = <<>>
    /\ chunk_i = 0
    /\ all_species = <<>>
    /\ degree_file = {}
    /\ apc = "start"

\* split_large_csv is called with a chunk size: up to the loop
split_large_csv ==
    /\ apc = "start"
    /\ chunk_size' \in 1..MaxChunk
    /\ chunk_paths' = <<>>
    /\ chunk_i' = 0
    /\ apc' = "split"
    /\ UNCHANGED <<interactions, temp_dir, all_species, degree_file>>
    /\ UNCHANGED enrich_vars

\* split_large_csv: one iteration of "for i, chunk in enumerate(pd.read_csv(...))"
SplitChunk ==
    /\ apc = "split"
    /\ MoreChunks(interactions, chunk_i, chunk_size)
    /\ temp_dir' = (chunk_path(chunk_i) :>
                        names_to_csv(ReadChunk(interactions, chunk_i, chunk_size)))
                   @@ temp_dir
    /\ chunk_paths' = Append(chunk_paths, chunk_path(chunk_i))
    /\ chunk_i' = chunk_i + 1
    /\ apc' = "split"
    /\ UNCHANGED <<interactions, chunk_size, all_species, degree_file>>
    /\ UNCHANGED enrich_vars

\* split_large_csv: the reader is exhausted, return chunk_paths
SplitReturn ==
    /\ apc = "split"
    /\ ~MoreChunks(interactions, chunk_i, chunk_size)
    /\ apc' = "returned"
    /\ UNCHANGED <<interactions, chunk_size, temp_dir, chunk_paths, chunk_i,
                   all_species, degree_file>>
    /\ UNCHANGED enrich_vars

\* The temp directory is filled by other means (main does not call
\* split_large_csv): consecutive non-empty chunks of any sizes.
Supplied ==
    /\ apc = "start"
    /\ \E cut \in Cuts(Len(interactions)) :
          temp_dir' = [f \in {chunk_path(k) : k \in 0..Cardinality(cut)} |->
                          names_to_csv(read_names(
                              CutChunk(interactions, cut,
                                       CHOOSE k \in 0..Cardinality(cut) : chunk_path(k) = f)))]
    /\ apc' = "supplied"
    /\ UNCHANGED <<interactions, chunk_size, chunk_paths, chunk_i, all_species, degree_file>>
    /\ UNCHANGED enrich_vars

\* main: chunk_paths from os.listdir; process_chunks: all_species starts empty.
\* Nothing of a call of split_large_csv is left but the files.
ListChunks ==
    /\ apc \in {"returned", "supplied"}
    /\ chunk_paths' \in Listings(temp_dir)
    /\ all_species' = <<>>
    /\ chunk_i' = 0
    /\ chunk_size' = 0
    /\ apc' = "process"
    /\ UNCHANGED <<interactions, temp_dir, degree_file>>
    /\ UNCHANGED enrich_vars

\* process_chunks: one iteration of "for i, chunk_path in enumerate(chunk_paths)"
ProcessChunk ==
    /\ apc = "process"
    /\ chunk_i < Len(chunk_paths)
    /\ all_species' = all_species \o Species(read_names(temp_dir[chunk_paths[chunk_i + 1]]))
    /\ chunk_i' = chunk_i + 1
    /\ UNCHANGED <<interactions, chunk_size, temp_dir, chunk_paths, degree_file, apc>>
    /\ UNCHANGED enrich_vars

\* process_chunks after the loop: count, name the columns, save the result
CountOccurrences ==
    /\ apc = "process"
    /\ chunk_i = Len(chunk_paths)
    /\ \E restructured \in value_counts(all_species) :
          degree_file' = {to_csv(restructured)}
    /\ apc' = "cleanup"
    /\ UNCHANGED <<interactions, chunk_size, temp_dir, chunk_paths, chunk_i, all_species>>
    /\ UNCHANGED enrich_vars

cleanup_temp_files ==
    /\ apc = "cleanup"
    /\ temp_dir' = [f \in DOMAIN temp_dir \ Range(chunk_paths) |-> temp_dir[f]]
    /\ apc' = "end"
    /\ UNCHANGED <<interactions, chunk_size, chunk_paths, chunk_i, all_species, degree_file>>
    /\ UNCHANGED enrich_vars

AggNext ==
    \/ split_large_csv
    \/ SplitChunk
    \/ SplitReturn
    \/ Supplied
    \/ ListChunks
    \/ ProcessChunk
    \/ CountOccurrences
    \/ cleanup_temp_files

AggSpec == AggInit /\ [][AggNext]_vars

(***************************************************************************)
(* The process.  pc is "idle" before the first start and after a kill,     *)
(* "aborted" after an exception that nothing caught, "done" after the      *)
(* final write; any other value is a position inside enrich_taxon_data.    *)
(***************************************************************************)
Running == pc \notin {"idle", "aborted", "done"}

Query(col, row) == [col |-> col, row |-> row]

\* rows whose iteration the process has been through when it is at pc
RowsDone == IF pc = "final" THEN total_rows
            ELSE IF pc = "sleep" THEN idx + 1 ELSE idx

EnrichedColumns == {"attention_ss", "attention_pm", "year_ofd"}

\* the cells (0-based row, column) that memory held and the table does not
Lost(memory, table) ==
    {c \in (0..(Len(memory) - 1)) \X EnrichedColumns :
        /\ ~isna(At(memory, c[1], c[2]))
        /\ c[1] < Len(table) => isna(At(table, c[1], c[2]))}

\* Tables of up to MaxRows rows meet services that may fail in every way; longer
\* tables, up to WideRows rows, meet services that always answer.
Worlds ==
    {[rows |-> n, reliable |-> FALSE] : n \in 0..MaxRows} \cup
    {[rows |-> n, reliable |-> TRUE] : n \in 0..WideRows}

Init ==
    /\ AggOff
    /\ \E w \in Worlds : input_file = DegreeTable(w.rows) /\ reliable = w.reliable
    /\ batch_size \in 1..MaxBatch
    /\ checkpoint_dir = EmptyDict
    /\ output_file = {}
    /\ pc = "idle"
    /\ taxon_data = <<>>
    /\ idx = 0
    /\ start_idx = 0
    /\ latest_checkpoint = {}
    /\ response = {}
    /\ runs = 0
    /\ loaded = <<>>
    /\ queries = <<>>
    /\ slept = <<>>
    /\ stopped = {}
    /\ resumed = {}

\* enrich_taxon_data up to the loop: read the input, then the latest checkpoint if any
Startup ==
    /\ ~Running
    /\ runs < MaxRuns
    /\ LET files == checkpoint_files(checkpoint_dir)
           table == IF files # {}
                    THEN read_csv(checkpoint_dir[SortedLast(files)])
                    ELSE InitColumns(read_csv(input_file))
       IN  /\ latest_checkpoint' = IF files # {} THEN {SortedLast(files)} ELSE {}
           /\ taxon_data' = table
           /\ loaded' = table
           /\ resumed' = {[rows_done |-> k.rows_done, lost |-> Lost(k.data, table)]
                           : k \in stopped}
    /\ idx' = 0
    /\ start_idx' = 0
    /\ pc' = "loop"
    /\ runs' = runs + 1
    /\ queries' = <<>>
    /\ slept' = <<>>
    /\ stopped' = {}
    /\ UNCHANGED <<input_file, batch_size, reliable, checkpoint_dir, output_file, response>>
    /\ UNCHANGED agg_vars

\* for idx in range(total_rows): exhausted
LoopExit ==
    /\ pc = "loop"
    /\ idx = total_rows
    /\ pc' = "final"
    /\ UNCHANGED <<input_file, batch_size, reliable, checkpoint_dir, output_file, taxon_data,
                   idx, start_idx, latest_checkpoint, response, runs, loaded,
                   queries, slept, stopped, resumed>>
    /\ UNCHANGED agg_vars

\* Skip already processed rows: start_idx = idx + 1; continue
SkipRow ==
    /\ pc = "loop"
    /\ idx < total_rows
    /\ AlreadyProcessed(taxon_data, idx)
    /\ start_idx' = idx + 1
    /\ idx' = idx + 1
    /\ UNCHANGED <<input_file, batch_size, reliable, checkpoint_dir, output_file, pc,
                   taxon_data, latest_checkpoint, response, runs, loaded, queries,
                   slept, stopped, resumed>>
    /\ UNCHANGED agg_vars

BeginRow ==
    /\ pc = "loop"
    /\ idx < total_rows
    /\ ~AlreadyProcessed(taxon_data, idx)
    /\ pc' = "ss"
    /\ UNCHANGED <<input_file, batch_size, reliable, checkpoint_dir, output_file, taxon_data,
                   idx, start_idx, latest_checkpoint, response, runs, loaded,
                   queries, slept, stopped, resumed>>
    /\ UNCHANGED agg_vars

\* one "if pd.isna(...)" block up to the request it sends
Ask(at, col, src, next, Responses) ==
    /\ pc = at
    /\ IF FieldMissing(taxon_data, idx, col)
       THEN /\ \E r \in Responses : response' = {r}
            /\ pc' = src
            /\ queries' = Append(queries, Query(col, idx))
            /\ slept' = <<>>
       ELSE /\ pc' = next
            /\ UNCHANGED <<response, queries, slept>>
    /\ UNCHANGED <<input_file, batch_size, reliable, checkpoint_dir, output_file, taxon_data,
                   idx, start_idx, latest_checkpoint, runs, loaded, stopped, resumed>>
    /\ UNCHANGED agg_vars

\* the rest of the block: the call returns (or raises), the cell is set, the pause
Got(src, col, next, result, pause) ==
    /\ pc = src
    /\ response' = {}
    /\ IF result.raised
       THEN /\ pc' = "aborted"
            /\ UNCHANGED <<taxon_data, slept>>
       ELSE /\ taxon_data' = SetAt(taxon_data, idx, col, result.value)
            /\ slept' = slept \o result.sleeps \o pause
            /\ pc' = next
    /\ UNCHANGED <<input_file, batch_size, reliable, checkpoint_dir, output_file, idx,
                   start_idx, latest_checkpoint, runs, loaded, queries, stopped, resumed>>
    /\ UNCHANGED agg_vars

TheResponse == CHOOSE r \in response : TRUE

AskSS == Ask("ss", "attention_ss", "semantic_scholar", "pm",
             IF reliable THEN SSAnswers ELSE SSResponses)

GotSS == Got("semantic_scholar", "attention_ss", "pm",
             get_semantic_scholar_attention(TheResponse), <<FieldPause>>)

AskPM == Ask("pm", "attention_pm", "pubmed", "wd",
             IF reliable THEN PMAnswers ELSE PMResponses)

GotPMNoPause == Got("pubmed", "attention_pm", "wd",
                    get_pubmed_attention(TheResponse), <<>>)

GotPM == Got("pubmed", "attention_pm", "wd",
             get_pubmed_attention(TheResponse), <<FieldPause>>)

AskWD == Ask("wd", "year_ofd", "wikidata", "checkpoint",
             IF reliable THEN WDAnswers ELSE WDResponses)

GotWD == Got("wikidata", "year_ofd", "checkpoint",
             get_wikidata_year(TheResponse), <<>>)

\* Create checkpoint after processing batch_size records
Checkpoint ==
    /\ pc = "checkpoint"
    /\ checkpoint_dir' =
          IF CheckpointDue(idx, total_rows, batch_size)
          THEN (checkpoint_file(idx) :> to_csv(taxon_data)) @@ checkpoint_dir
          ELSE checkpoint_dir
    /\ pc' = "sleep"
    /\ UNCHANGED <<input_file, batch_size, reliable, output_file, taxon_data, idx, start_idx,
                   latest_checkpoint, response, runs, loaded, queries, slept, stopped, resumed>>
    /\ UNCHANGED agg_vars

\* time.sleep(1) and the next iteration
Pace ==
    /\ pc = "sleep"
    /\ slept' = Append(slept, RowPause)
    /\ idx' = idx + 1
    /\ pc' = "loop"
    /\ UNCHANGED <<input_file, batch_size, reliable, checkpoint_dir, output_file, taxon_data,
                   start_idx, latest_checkpoint, response, runs, loaded, queries,
                   stopped, resumed>>
    /\ UNCHANGED agg_vars

\* Save final result
Final ==
    /\ pc = "final"
    /\ output_file' = {to_csv(taxon_data)}
    /\ pc' = "done"
    /\ UNCHANGED <<input_file, batch_size, reliable, checkpoint_dir, taxon_data, idx,
                   start_idx, latest_checkpoint, response, runs, loaded, queries,
                   slept, stopped, resumed>>
    /\ UNCHANGED agg_vars

\* The process is killed: its memory is gone, the files stay.
Kill ==
    /\ Running
    /\ stopped' = {[rows_done |-> RowsDone, data |-> taxon_data]}
    /\ pc' = "idle"
    /\ taxon_data' = <<>>
    /\ idx' = 0
    /\ start_idx' = 0
    /\ latest_checkpoint' = {}
    /\ response' = {}
    /\ loaded' = <<>>
    /\ queries' = <<>>
    /\ slept' = <<>>
    /\ resumed' = {}
    /\ UNCHANGED <<input_file, batch_size, reliable, checkpoint_dir, output_file, runs>>
    /\ UNCHANGED agg_vars

\* the steps of a running process
Step ==
    \/ LoopExit
    \/ SkipRow
    \/ BeginRow
    \/ AskSS
    \/ GotSS
    \/ AskPM
    \/ GotPM
    \/ AskWD
    \/ GotWD
    \/ Checkpoint
    \/ Pace
    \/ Final

Next ==
    \/ Startup
    \/ Kill
    \/ LoopExit
    \/ SkipRow
    \/ BeginRow
    \/ AskSS
    \/ GotSS
    \/ AskPM
    \/ GotPM
    \/ AskWD
    \/ GotWD
    \/ Checkpoint
    \/ Pace
    \/ Final

Spec == Init /\ [][Next]_vars

(***************************************************************************)
(* Claims.                                                                 *)
(***************************************************************************)
\* the run is at the top of the loop and has touched nothing yet
JustStarted == pc = "loop" /\ idx = 0 /\ queries = <<>> /\ start_idx = 0

\* the checkpoint whose name carries the highest row index
HighestCheckpoint(dir) ==
    CHOOSE f \in checkpoint_files(dir) :
        \A g \in checkpoint_files(dir) : CheckpointIndex(g) <= CheckpointIndex(f)

\* C1: whenever checkpoints exist at startup, the table loaded is the one of the
\* checkpoint with the numerically highest row index.
C1_LoadsHighestIndex ==
    (JustStarted /\ checkpoint_files(checkpoint_dir) # {}) =>
        /\ latest_checkpoint = {HighestCheckpoint(checkpoint_dir)}
        /\ loaded = read_csv(checkpoint_dir[HighestCheckpoint(checkpoint_dir)])

\* C2: a run restarted after a kill that came when K rows were done sends its first
\* request for row K+1 and no request for a cell of rows 1..K that the killed run
\* had filled.
C2_ResumesAtNextRow ==
    \A k \in resumed :
        /\ queries # <<>> => queries[1].row = k.rows_done
        /\ \A q \in Range(queries) :
              ~(q.row < k.rows_done /\ <<q.row, q.col>> \in k.lost)

\* the current run was started after a run that reached its final write
AfterCompletedRun == runs >= 2 /\ resumed = {} /\ pc # "idle"

\* C3: a run started after a completed run sends no request, changes no cell and
\* leaves the output table as the completed run wrote it.
C3_IdempotentResume ==
    AfterCompletedRun =>
        /\ queries = <<>>
        /\ taxon_data = loaded
        /\ output_file = {to_csv(taxon_data)}

\* C4: within one run a request for a cell is sent only while that cell is
\* missing, at most once per cell, and never for a cell present in the loaded
\* table (so never for a row loaded with all three cells present).
C4_QueriesOnlyMissingOnce ==
    /\ \A i, j \in DOMAIN queries : queries[i] = queries[j] => i = j
    /\ \A q \in Range(queries) : isna(At(loaded, q.row, q.col))
    /\ response # {} =>
          /\ queries[Len(queries)].row = idx
          /\ isna(At(taxon_data, idx, queries[Len(queries)].col))

\* a resumed run found one cell of a row present and asked only for the other
C4_Witness ==
    /\ pc = "done"
    /\ latest_checkpoint # {}
    /\ \E i \in 0..(total_rows - 1) :
          /\ ~isna(At(loaded, i, "attention_ss"))
          /\ Query("year_ofd", i) \in Range(queries)
          /\ Query("attention_ss", i) \notin Range(queries)

\* the row indices a complete pass over n rows with batch size b checkpoints
CadenceIndices(n, b) == {k \in 1..n : k % b = 0 \/ k = n}

\* C5: a run that found no checkpoint and reaches the end leaves exactly
\* ceil(N/B) checkpoint files, those of B, 2B, ... and N.
C5_CheckpointCadence ==
    (pc = "done" /\ latest_checkpoint = {}) =>
        /\ DOMAIN checkpoint_dir =
              {checkpoint_file(k - 1) : k \in CadenceIndices(Len(input_file), batch_size)}
        /\ Cardinality(DOMAIN checkpoint_dir) =
              (Len(input_file) + batch_size - 1) \div batch_size

\* a complete first pass whose last batch is short
C5_Witness ==
    /\ pc = "done"
    /\ latest_checkpoint = {}
    /\ Len(input_file) > batch_size
    /\ Len(input_file) % batch_size # 0
    /\ checkpoint_file(Len(input_file) - 1) \in DOMAIN checkpoint_dir

\* C6: in every run, once the loop is past a row whose index is a multiple of B,
\* or past the last row, the checkpoint of that index holds the whole current
\* table, whether or not the row needed a request.
C6_CheckpointAtEveryBatch ==
    (pc = "loop" /\ idx > 0 /\ CheckpointDue(idx - 1, total_rows, batch_size)) =>
        /\ checkpoint_file(idx - 1) \in DOMAIN checkpoint_dir
        /\ checkpoint_dir[checkpoint_file(idx - 1)] = to_csv(taxon_data)

\* C7: every checkpoint write creates a file name that did not exist, and the
\* content of an existing checkpoint never changes.
C7_CheckpointsWriteOnce ==
    [][ /\ \A f \in DOMAIN checkpoint_dir :
              f \in DOMAIN checkpoint_dir' /\ checkpoint_dir'[f] = checkpoint_dir[f]
        /\ (pc = "checkpoint" /\ pc' = "sleep"
              /\ CheckpointDue(idx, total_rows, batch_size)) =>
              checkpoint_file(idx) \notin DOMAIN checkpoint_dir ]_vars

\* a response that is no result: an exception, a status other than 200, a body
\* that is not JSON
NoResult(r) == r.raised \/ r.status_code # StatusOk \/ ~r.json_ok

\* a 200 response of the bibliographic search whose body lacks a numeric total
SSMalformed(r) == "total" \notin DOMAIN r.data \/ r.data["total"].t # "num"

\* a 200 response of the literature index whose body lacks a numeric count
PMMalformed(r) ==
    \/ "esearchresult" \notin DOMAIN r.data
    \/ "count" \notin DOMAIN r.data["esearchresult"]
    \/ LET c == r.data["esearchresult"]["count"]
       IN  ~(c.t = "num" \/ (c.t = "str" /\ isdigit(c.s)))

\* C8: a failed attention request records 0 in its cell, a failed year request
\* leaves year_ofd missing, and in both cases the loop goes on to the next field.
C8_FailedLookupContinues ==
    [][ (response # {} /\ pc' # "idle") =>
          /\ (pc = "semantic_scholar"
                /\ (NoResult(TheResponse) \/ SSMalformed(TheResponse))) =>
                (pc' = "pm" /\ At(taxon_data', idx, "attention_ss") = {0})
          /\ (pc = "pubmed"
                /\ (NoResult(TheResponse) \/ PMMalformed(TheResponse))) =>
                (pc' = "wd" /\ At(taxon_data', idx, "attention_pm") = {0})
          /\ (pc = "wikidata" /\ NoResult(TheResponse)) =>
                (pc' = "checkpoint" /\ isna(At(taxon_data', idx, "year_ofd"))) ]_vars

\* C9: a run that reaches the end has sent a year request for every row whose
\* year_ofd was missing in the table it loaded.
C9_MissingYearRetried ==
    pc \in {"final", "done"} =>
        \A i \in 0..(total_rows - 1) :
            isna(At(loaded, i, "year_ofd")) => Query("year_ofd", i) \in Range(queries)

\* a run resumed from a checkpoint in which an earlier run had left a year missing
C9_Witness ==
    /\ pc = "done"
    /\ latest_checkpoint # {}
    /\ \E i \in 0..(total_rows - 1) :
          /\ isna(At(loaded, i, "year_ofd"))
          /\ ~isna(At(loaded, i, "attention_ss"))
          /\ ~isna(At(loaded, i, "attention_pm"))
          /\ Query("year_ofd", i) \in Range(queries)

\* the positions of one iteration, in the order the code goes through them
RowSteps == <<"loop", "ss", "semantic_scholar", "pm", "pubmed", "wd", "wikidata",
              "checkpoint", "sleep">>

\* how far a running process is: iterations behind it, then the position in this one
Progress ==
    IF pc = "final" THEN Len(RowSteps) * total_rows + 1
    ELSE Len(RowSteps) * idx + (CHOOSE k \in DOMAIN RowSteps : RowSteps[k] = pc) - 1

\* C10: whatever the services answer, a run that is not killed goes through the
\* rows in index order, one at a time, reaches the end and writes the whole table
\* to the output; no answer aborts it.  Termination is stated by a measure: a
\* running process can always take a step, every step raises Progress, and
\* Progress never exceeds that of the final write.
C10_RunReachesFinalWrite ==
    /\ [](pc # "aborted")
    /\ [](Running => ENABLED Step)
    /\ [](Running => (idx <= total_rows /\ Progress <= Len(RowSteps) * total_rows + 1))
    /\ [][(Running /\ Running') => (Progress' > Progress /\ idx' \in {idx, idx + 1})]_vars
    /\ [][(pc = "final" /\ pc' # "idle") =>
            (pc' = "done" /\ output_file' = {to_csv(taxon_data)})]_vars
    /\ [](pc = "done" =>
            /\ idx = total_rows
            /\ total_rows = Len(input_file)
            /\ output_file = {to_csv(taxon_data)})

\* a run over a table in which some request failed has written the output
C10_Witness ==
    /\ pc = "done"
    /\ ~reliable
    /\ total_rows = MaxRows
    /\ \E i \in 0..(total_rows - 1) :
          At(taxon_data, i, "attention_pm") = {0} /\ isna(At(taxon_data, i, "year_ofd"))
    /\ output_file = {to_csv(taxon_data)}

\* the year request in flight is answered with HTTP 429
RateLimited ==
    /\ pc = "wikidata"
    /\ response # {}
    /\ ~TheResponse.raised
    /\ TheResponse.status_code = TooManyRequests

\* C14: a year request answered with HTTP 429 makes the call sleep 60 s once and
\* return no year: year_ofd of the row stays missing and the run goes to the
\* checkpoint step, then sleeps and takes the next row; after the year request of
\* a row no request of the same run is for that row or an earlier one.
C14_RateLimitPausesThenFails ==
    /\ [][(RateLimited /\ pc' # "idle") =>
            /\ slept' = slept \o <<RateLimitPause>>
            /\ isna(At(taxon_data', idx, "year_ofd"))
            /\ pc' = "checkpoint"
            /\ idx' = idx
            /\ queries' = queries]_vars
    /\ [][(pc = "checkpoint" /\ pc' # "idle") =>
            (pc' = "sleep" /\ idx' = idx /\ queries' = queries)]_vars
    /\ [][(pc = "sleep" /\ pc' # "idle") =>
            (pc' = "loop" /\ idx' = idx + 1 /\ queries' = queries)]_vars
    /\ [](\A i, j \in DOMAIN queries :
            (i < j /\ queries[i].col = "year_ofd") => queries[j].row > queries[i].row)

\* after a rate-limited year request for the first row the run is at the next row
C14_Witness ==
    /\ pc = "loop"
    /\ idx = 1
    /\ total_rows > 1
    /\ slept = <<RateLimitPause, RowPause>>
    /\ isna(At(taxon_data, 0, "year_ofd"))
    /\ Query("year_ofd", 0) \in Range(queries)

\* a run holds a table; a step with runs' = runs between two such states is one
\* of that run
InRun == pc \notin {"idle", "aborted"}

\* C15: a step of a run changes at most cells of the current row in the three
\* enrichment columns that were missing; taxon_name and degree, the other rows,
\* the present cells and the number and order of rows stay as loaded, and every
\* checkpoint and the output are written with the rows of the loaded table.
C15_EnrichmentFrame ==
    /\ [][(InRun /\ InRun' /\ runs' = runs) =>
            /\ Len(taxon_data') = Len(taxon_data)
            /\ \A j \in DOMAIN taxon_data :
                  /\ DOMAIN taxon_data'[j] = DOMAIN taxon_data[j]
                  /\ \A c \in DOMAIN taxon_data[j] :
                        taxon_data'[j][c] # taxon_data[j][c] =>
                            /\ j = idx + 1
                            /\ c \in EnrichedColumns
                            /\ isna(taxon_data[j][c])]_vars
    /\ [](InRun =>
            /\ Len(taxon_data) = Len(loaded)
            /\ \A j \in DOMAIN loaded :
                  /\ taxon_data[j].taxon_name = loaded[j].taxon_name
                  /\ taxon_data[j].degree = loaded[j].degree
                  /\ \A c \in EnrichedColumns :
                        ~isna(loaded[j][c]) => taxon_data[j][c] = loaded[j][c])
    /\ [][(InRun /\ InRun' /\ runs' = runs) =>
            /\ \A f \in DOMAIN checkpoint_dir' :
                  (f \notin DOMAIN checkpoint_dir \/ checkpoint_dir'[f] # checkpoint_dir[f]) =>
                      /\ checkpoint_dir'[f] = to_csv(taxon_data)
                      /\ Len(checkpoint_dir'[f]) = Len(loaded)
                      /\ \A j \in DOMAIN loaded :
                            checkpoint_dir'[f][j].taxon_name = loaded[j].taxon_name
            /\ output_file' # output_file =>
                  /\ output_file' = {to_csv(taxon_data)}
                  /\ Len(to_csv(taxon_data)) = Len(loaded)]_vars

\* a resumed run filled the missing year of the second row, whose attention was
\* loaded, and has written the output
C15_Witness ==
    /\ pc = "done"
    /\ latest_checkpoint # {}
    /\ total_rows = 2
    /\ ~isna(At(loaded, 1, "attention_pm"))
    /\ isna(At(loaded, 1, "year_ofd"))
    /\ ~isna(At(taxon_data, 1, "year_ofd"))
    /\ At(taxon_data, 1, "attention_pm") = At(loaded, 1, "attention_pm")

\* C16: within a run a request that is not the first one is sent only after a
\* sleep since the request before it; an attention request is followed by a
\* sleep of 0.5 s, a processed row by a sleep of 1 s, and skipping a complete
\* row sleeps not at all.
C16_PacingBetweenQueries ==
    /\ [][(Len(queries') > Len(queries) /\ queries # <<>>) =>
            /\ slept # <<>>
            /\ \E k \in DOMAIN slept : slept[k] \in {FieldPause, RowPause}]_vars
    /\ [][(pc \in {"semantic_scholar", "pubmed"} /\ pc' \notin {"idle", "aborted"}) =>
            slept' = Append(slept, FieldPause)]_vars
    /\ [][(pc = "sleep" /\ pc' # "idle") => slept' = Append(slept, RowPause)]_vars
    /\ [][(pc = "loop" /\ pc' = "loop") => slept' = slept]_vars

\* between the literature request and the year request of the second row, the
\* first row's requests behind it
C16_Witness ==
    /\ pc = "wd"
    /\ idx = 1
    /\ slept = <<FieldPause>>
    /\ FieldMissing(taxon_data, idx, "year_ofd")
    /\ Query("attention_pm", 1) \in Range(queries)
    /\ Query("year_ofd", 0) \in Range(queries)

\* C18: when a run has written the output of a table with rows, the checkpoint
\* that the next startup would load holds the same table as the output.
C18_LatestCheckpointIsOutput ==
    (pc = "done" /\ total_rows > 0) =>
        /\ checkpoint_files(checkpoint_dir) # {}
        /\ output_file = {checkpoint_dir[SortedLast(checkpoint_files(checkpoint_dir))]}

\* the rows the killed run had been through of which the restart lacks a result
LostRows(k) == {c[1] : c \in {d \in k.lost : d[1] < k.rows_done}}

\* C19: the table loaded by a run restarted after a kill lacks results of at most
\* batch_size - 1 rows that the killed run had finished.
C19_BoundedLostWork ==
    \A k \in resumed : Cardinality(LostRows(k)) <= batch_size - 1

\* C20: right after the checkpoint of row k is written, rows 1..k of it have
\* attention_ss and attention_pm present, and rows k+1..N of it are as loaded
\* at startup.
C20_FilledPrefix ==
    (pc = "sleep" /\ CheckpointDue(idx, total_rows, batch_size)) =>
        /\ checkpoint_file(idx) \in DOMAIN checkpoint_dir
        /\ LET snapshot == read_csv(checkpoint_dir[checkpoint_file(idx)])
           IN  /\ Len(snapshot) = total_rows
               /\ \A j \in 1..(idx + 1) :
                     /\ ~isna(snapshot[j].attention_ss)
                     /\ ~isna(snapshot[j].attention_pm)
               /\ \A j \in (idx + 2)..total_rows : snapshot[j] = loaded[j]

\* process_chunks has just written the degree table
Aggregated == apc = "cleanup"

\* the degree tables the whole-file aggregation may write for the same records
WholeFileTables == restructure_data(SnakeCase(interactions))

\* C11: whatever the chunks the records were cut into and the order in which
\* they are processed, the degree table of process_chunks holds the same
\* (taxon_name, degree) pairs as that of the whole-file aggregation.
C11_ChunksAgreeWithWholeFile ==
    Aggregated =>
        /\ degree_file # {}
        /\ \A d \in degree_file : \A w \in WholeFileTables : Range(d) = Range(w)

\* three chunks of one record processed out of source order, one name in two of
\* them
C11_Witness ==
    /\ Aggregated
    /\ Len(chunk_paths) = 3
    /\ chunk_paths[1] = chunk_path(2)
    /\ \E d \in degree_file : Len(d) = 2 /\ d[1].degree = str(4)

RECURSIVE DegreeSum(_)
DegreeSum(table) ==
    IF table = <<>> THEN 0
    ELSE int(table[Len(table)].degree) + DegreeSum(SubSeq(table, 1, Len(table) - 1))

\* the name fields of the input that hold a name
NameFields ==
    {f \in (DOMAIN interactions) \X {"sourceTaxonName", "targetTaxonName"} :
        interactions[f[1]][f[2]] # <<>>}

\* C12 as stated: the degrees of the table sum to 2*R for every input of R
\* records, records with an empty name field included.
C12_DegreeSumIsTwiceRecords ==
    Aggregated =>
        /\ \A d \in degree_file : DegreeSum(d) = 2 * Len(interactions)
        /\ \A w \in WholeFileTables : DegreeSum(w) = 2 * Len(interactions)

\* C12 amended: the degrees of the table sum to the number of source and target
\* fields that hold a name, which is 2*R when no name field is empty.
C12_DegreeSumIsNameFields ==
    Aggregated =>
        /\ \A d \in degree_file : DegreeSum(d) = Cardinality(NameFields)
        /\ \A w \in WholeFileTables : DegreeSum(w) = Cardinality(NameFields)
        /\ (\A k \in DOMAIN interactions :
                interactions[k].sourceTaxonName # <<>> /\ interactions[k].targetTaxonName # <<>>)
              => Cardinality(NameFields) = 2 * Len(interactions)

\* a table was written for records of which some name fields are empty and a
\* name occurs more than once
C12_Witness ==
    /\ Aggregated
    /\ Len(interactions) = MaxRecords
    /\ Cardinality(NameFields) \in 2..(2 * Len(interactions) - 1)
    /\ \E d \in degree_file : Len(d) = 2 /\ DegreeSum(d) = Cardinality(NameFields)

\* the rows of the chunk files of a list, one file after the other
RECURSIVE Concatenation(_, _)
Concatenation(paths, dir) ==
    IF paths = <<>> THEN <<>>
    ELSE Concatenation(SubSeq(paths, 1, Len(paths) - 1), dir)
            \o read_names(dir[paths[Len(paths)]])

\* the chunk files split_large_csv returned are numbered from 0 in source order,
\* hold at most chunk_size rows, all but the last exactly chunk_size, and put one
\* after the other they are the rows of the source
ChunksCoverSource ==
    /\ \A k \in DOMAIN chunk_paths : chunk_paths[k] = chunk_path(k - 1)
    /\ DOMAIN temp_dir = Range(chunk_paths)
    /\ \A k \in DOMAIN chunk_paths :
          /\ Len(temp_dir[chunk_paths[k]]) <= chunk_size
          /\ k < Len(chunk_paths) => Len(temp_dir[chunk_paths[k]]) = chunk_size
    /\ Concatenation(chunk_paths, temp_dir) = read_names(interactions)

\* ceil(R/C)
CeilDiv(r, c) == (r + c - 1) \div c

\* C13 as stated: split_large_csv writes exactly ceil(R/C) chunk files, numbered
\* from 0 in source order, each of at most C consecutive rows and all but the last
\* of exactly C, whose concatenation is the source.
C13_SplitIntoCeilChunks ==
    apc = "returned" =>
        /\ Len(chunk_paths) = CeilDiv(Len(interactions), chunk_size)
        /\ ChunksCoverSource

\* C13 amended: the same with ceil(R/C) chunk files for R >= 1 and one chunk file
\* without rows for R = 0.
C13_SplitIntoChunks ==
    apc = "returned" =>
        /\ Len(chunk_paths) = IF Len(interactions) = 0 THEN 1
                              ELSE CeilDiv(Len(interactions), chunk_size)
        /\ ChunksCoverSource

\* a source whose last chunk is short has been split
C13_Witness ==
    /\ apc = "returned"
    /\ chunk_size = 2
    /\ Len(interactions) = 3
    /\ Len(chunk_paths) = 2
    /\ Len(temp_dir[chunk_path(1)]) = 1

\* the names in the source or target column of the input
InputNames ==
    {interactions[k].sourceTaxonName : k \in DOMAIN interactions}
        \cup {interactions[k].targetTaxonName : k \in DOMAIN interactions}

\* one row per name of the input, each degree at least 1, degrees not rising
RankedByDegree(table) ==
    /\ {table[k].taxon_name : k \in DOMAIN table} = InputNames \ {<<>>}
    /\ \A a, b \in DOMAIN table : table[a].taxon_name = table[b].taxon_name => a = b
    /\ \A k \in DOMAIN table : int(table[k].degree) >= 1
    /\ \A a, b \in DOMAIN table : a < b => int(table[a].degree) >= int(table[b].degree)

\* C17: the degree table of the aggregator, chunked or whole-file, has exactly
\* one row per distinct name of the source or target column, each with a degree
\* of at least 1, in non-increasing order of degree.
C17_OneRowPerNameRanked ==
    Aggregated =>
        /\ \A d \in degree_file : RankedByDegree(d)
        /\ \A w \in WholeFileTables : RankedByDegree(w)

\* a table of two names with different degrees, from records with an empty field
C17_Witness ==
    /\ apc = "cleanup"
    /\ <<>> \in InputNames
    /\ \E d \in degree_file :
          Len(d) = 2 /\ int(d[1].degree) > int(d[2].degree) /\ int(d[2].degree) >= 1

====
